---- MODULE Spec2Model ----
(***************************************************************************)
(* A model of the puncturable partially-oblivious PRF of                   *)
(* ppoprf/src/ppoprf.rs: the Server (new, eval, puncture, get_public_key), *)
(* the stateless Client (blind, verify, unblind), the DLEQ proof and the   *)
(* GGM puncturable PRF the server delegates to.                            *)
(*                                                                         *)
(* The Ristretto group is scaled down to a cyclic group of prime order Q.  *)
(* A point is represented by its discrete logarithm to the base point, so  *)
(* the base point is 1 and the identity is 0; scalars are 0..Q-1.          *)
(* Compressed points, digests and seeds are small integers standing for    *)
(* the 32- and 64-byte strings of the program.                             *)
(***************************************************************************)
EXTENDS Integers, Sequences, FiniteSets, TLC

VARIABLES
    oprf_key,       \* Server.oprf_key
    public_key,     \* Server.public_key: [base_pk, md_pks]
    pprf,           \* Server.pprf: the cover of the GGM tree
    last,           \* the call in progress: its operation, arguments and result
    tagset,         \* history: the tags of the vector given to Server::new
    snapshot,       \* history: the clone of the public key taken right after new
    punctured_ok    \* history: the tags for which puncture has returned Ok

vars == <<oprf_key, public_key, pprf, last, tagset, snapshot, punctured_ok>>

server == <<oprf_key, public_key, pprf>>

history == <<tagset, snapshot, punctured_ok>>

---------------------------------------------------------------------------
(* Bounds of the model. *)

\* Tags handed to new, eval and puncture: MaxTag + 1 of them, taken from both
\* ends of the tag domain.
MaxTag == 2

\* Longest tag vector handed to Server::new.
MaxMds == 2

\* GGM::setup draws its root seed from 0..MaxRootSeed.
MaxRootSeed == 1

\* Client inputs are the empty string and the one-byte strings 0..MaxInputByte.
MaxInputByte == 1

\* Longest input handed to Client::finalize, its bytes in 0..MaxInputByte.
MaxInputLen == 2

---------------------------------------------------------------------------
(* Scalars and points: curve25519_dalek Scalar and RistrettoPoint. *)

\* The prime order of the group (2^252 + ... in the program).
Q == 5

Scalars == 0 .. (Q - 1)

Points == 0 .. (Q - 1)

\* RISTRETTO_BASEPOINT_POINT
BASEPOINT == 1

ScalarAdd(a, b) == (a + b) % Q

ScalarSub(a, b) == (a + Q - b) % Q

ScalarMul(a, b) == (a * b) % Q

\* scalar * point
PointMul(s, p) == (s * p) % Q

\* point + point
PointAdd(p, q) == (p + q) % Q

RECURSIVE ScalarPow(_, _)
ScalarPow(a, n) == IF n = 0 THEN 1 % Q ELSE ScalarMul(a, ScalarPow(a, n - 1))

\* Scalar::invert: the power a^(Q-2), which is 0 for a = 0.
Invert(a) == ScalarPow(a, Q - 2)

\* Scalar::from_bytes_mod_order and from_bytes_mod_order_wide.
FromBytesModOrder(bytes) == bytes % Q

\* CompressedRistretto values: 0 .. Q; the value 1 decodes to no point.
Encodings == 0 .. Q

NoPoint == -1

\* RistrettoPoint::compress
Compress(p) == IF p = 0 THEN 0 ELSE p + 1

\* CompressedRistretto::decompress, NoPoint standing for None.
Decompress(e) == IF e = 0 THEN 0 ELSE IF e >= 2 /\ e <= Q THEN e - 1 ELSE NoPoint

\* RistrettoPoint::from_uniform_bytes
FromUniformBytes(digest) == digest % Q

---------------------------------------------------------------------------
(* strobe_hash: a labelled hash of a byte string to a 64-byte digest. *)

DigestSpace == 251

LabelValue(label) ==
    CASE label = "ppoprf_dleq_hash" -> 17
      [] label = "ppoprf_derive_client_input" -> 101
      [] label = "ppoprf_finalize" -> 59
      [] OTHER -> 7

\* The states of the hash, which are its digests too.
Digests == 0 .. DigestSpace - 1

\* One byte absorbed into the state h.
AbsorbByte(h, b) == ((h + b + 1) * (h + b + 1) + 3 * h + 5) % DigestSpace

\* The bytes absorbed into the state h one after the other, each state being
\* computed before the next byte is taken.
RECURSIVE Absorb(_, _)
Absorb(h, bytes) ==
    IF bytes = <<>> THEN h
    ELSE LET next == AbsorbByte(h, Head(bytes))
         IN  CASE next \in Digests -> Absorb(next, Tail(bytes))

strobe_hash(input, label) == Absorb(LabelValue(label), input)

---------------------------------------------------------------------------
(* The GGM puncturable PRF (crate::ggm::GGM): a binary tree of depth       *)
(* TagBits; the state is the cover, a set of (depth, prefix, seed)         *)
(* entries whose subtrees hold exactly the tags not punctured.             *)

\* Seeds are 0 .. SeedSpace-1 (32-byte strings in the program).
SeedSpace == 11

\* The tag is one byte: the tree has depth 8.
TagBits == 8

Tags == 0 .. (2 ^ TagBits - 1)

\* The length-doubling generator: the left and right child seeds.
Prg(seed) ==
    << (seed * seed + 3 * seed + 1) % SeedSpace, (2 * seed * seed + seed + 7) % SeedSpace >>

\* The first d bits of the path of tag.
PrefixOf(tag, d) == tag \div (2 ^ (TagBits - d))

\* The bit of tag's path taken when leaving depth d.
BitAt(tag, d) == (tag \div (2 ^ (TagBits - d - 1))) % 2

Covers(e, tag) == PrefixOf(tag, e.depth) = e.prefix

Covering(cover, tag) == { e \in cover : Covers(e, tag) }

\* GGM::setup: one root seed covering every tag.
GgmSetup(root) == { [depth |-> 0, prefix |-> 0, seed |-> root] }

RECURSIVE Descend(_, _, _)
Descend(seed, d, tag) ==
    IF d = TagBits THEN seed
    ELSE Descend(Prg(seed)[BitAt(tag, d) + 1], d + 1, tag)

\* GGM::eval: the leaf seed of tag, or NoPrefixFound.
GgmEval(cover, tag) ==
    IF Covering(cover, tag) = {}
    THEN [ok |-> FALSE, err |-> "NoPrefixFound", out |-> 0]
    ELSE LET e == CHOOSE x \in Covering(cover, tag) : TRUE
         IN  [ok |-> TRUE, err |-> "", out |-> Descend(e.seed, e.depth, tag)]

RECURSIVE Siblings(_, _, _)
Siblings(seed, d, tag) ==
    IF d = TagBits THEN {}
    ELSE LET bit == BitAt(tag, d)
             kids == Prg(seed)
         IN  { [depth |-> d + 1,
                prefix |-> 2 * PrefixOf(tag, d) + (1 - bit),
                seed |-> kids[(1 - bit) + 1]] }
             \cup Siblings(kids[bit + 1], d + 1, tag)

\* GGM::puncture: the covering seed is replaced by the siblings of the path.
GgmPuncture(cover, tag) ==
    IF Covering(cover, tag) = {}
    THEN [ok |-> FALSE, err |-> "NoPrefixFound", cover |-> cover]
    ELSE LET e == CHOOSE x \in Covering(cover, tag) : TRUE
         IN  [ok |-> TRUE, err |-> "",
              cover |-> (cover \ {e}) \cup Siblings(e.seed, e.depth, tag)]

---------------------------------------------------------------------------
(* ProofDLEQ *)

RECURSIVE CompressAll(_)
CompressAll(elements) ==
    IF elements = <<>> THEN <<>>
    ELSE <<Compress(Head(elements))>> \o CompressAll(Tail(elements))

\* ProofDLEQ::hash
DleqHash(elements) ==
    FromBytesModOrder(strobe_hash(CompressAll(elements), "ppoprf_dleq_hash"))

\* ProofDLEQ::new with the response s = t + chl * key.
ProofNewWrongSign(key, public_value, p, q, t) ==
    LET tg  == PointMul(t, BASEPOINT)
        tp  == PointMul(t, p)
        chl == DleqHash(<<BASEPOINT, public_value, p, q, tg, tp>>)
    IN  [c |-> chl, s |-> ScalarAdd(t, ScalarMul(chl, key))]

\* ProofDLEQ::new, t being the scalar it draws.
ProofNew(key, public_value, p, q, t) ==
    LET tg  == PointMul(t, BASEPOINT)
        tp  == PointMul(t, p)
        chl == DleqHash(<<BASEPOINT, public_value, p, q, tg, tp>>)
    IN  [c |-> chl, s |-> ScalarSub(t, ScalarMul(chl, key))]

\* ProofDLEQ::verify with p and q exchanged in the second commitment.
ProofVerifySwappingPoints(proof, public_value, p, q) ==
    LET a == PointAdd(PointMul(proof.s, BASEPOINT), PointMul(proof.c, public_value))
        b == PointAdd(PointMul(proof.s, q), PointMul(proof.c, p))
        c_prime == DleqHash(<<BASEPOINT, public_value, p, q, a, b>>)
    IN  c_prime = proof.c

\* ProofDLEQ::verify
ProofVerify(proof, public_value, p, q) ==
    LET a == PointAdd(PointMul(proof.s, BASEPOINT), PointMul(proof.c, public_value))
        b == PointAdd(PointMul(proof.s, p), PointMul(proof.c, q))
        c_prime == DleqHash(<<BASEPOINT, public_value, p, q, a, b>>)
    IN  c_prime = proof.c

---------------------------------------------------------------------------
(* ServerPublicKey *)

\* ServerPublicKey::get: Some(point) as <<point>>, None as <<>>.
PkGet(pk, md) == IF md \in DOMAIN pk.md_pks THEN <<pk.md_pks[md]>> ELSE <<>>

\* ServerPublicKey::get_combined_pk_value that returns the tag's key alone.
GetCombinedPkValueWithoutBase(pk, md) ==
    LET res == PkGet(pk, md)
    IN  IF res = <<>>
        THEN [ok |-> FALSE, err |-> "BadTag", value |-> 0]
        ELSE [ok |-> TRUE, err |-> "", value |-> res[1]]

\* ServerPublicKey::get_combined_pk_value
GetCombinedPkValue(pk, md) ==
    LET res == PkGet(pk, md)
    IN  IF res = <<>>
        THEN [ok |-> FALSE, err |-> "BadTag", value |-> 0]
        ELSE [ok |-> TRUE, err |-> "", value |-> PointAdd(pk.base_pk, res[1])]

---------------------------------------------------------------------------
(* Server *)

\* The results of the calls: kind is "Ok", an error name or "panic".
Ok(output, proof) == [kind |-> "Ok", md |-> 0, output |-> output, proof |-> proof]

Err(kind, md) == [kind |-> kind, md |-> md, output |-> NoPoint, proof |-> <<>>]

Panic == Err("panic", 0)

\* The loop of Server::new over mds: one HashMap insertion per tag.
RECURSIVE InsertMdPks(_, _, _)
InsertMdPks(md_pks, cover, mds) ==
    IF mds = <<>> THEN md_pks
    ELSE LET md == Head(mds)
             ts == FromBytesModOrder(GgmEval(cover, md).out)
         IN  InsertMdPks([m \in (DOMAIN md_pks) \cup {md} |->
                             IF m = md THEN PointMul(ts, BASEPOINT) ELSE md_pks[m]],
                         cover, Tail(mds))

\* Server::new, sk and root being the scalar and the seed it draws.
ServerNew(mds, sk, root) ==
    LET cover == GgmSetup(root)
    IN  [oprf_key |-> sk,
         public_key |-> [base_pk |-> PointMul(sk, BASEPOINT),
                         md_pks  |-> InsertMdPks(<<>>, cover, mds)],
         pprf |-> cover]

\* Server::eval that goes on with the zeroed tag buffer when the PPRF fails.
ServerEvalIgnoringPprfError(sk, pk, cover, p, md, verifiable, t) ==
    LET point == Decompress(p)
    IN  IF point = NoPoint THEN Panic
        ELSE IF PkGet(pk, md) = <<>> THEN Err("BadTag", md)
        ELSE LET tagged_key == ScalarAdd(sk, FromBytesModOrder(GgmEval(cover, md).out))
                 eval_point == PointMul(Invert(tagged_key), point)
                 public_value == GetCombinedPkValue(pk, md)
             IN  IF verifiable
                 THEN Ok(Compress(eval_point),
                         << ProofNew(tagged_key, public_value.value, eval_point, point, t) >>)
                 ELSE Ok(Compress(eval_point), <<>>)

\* Server::eval without the look-up of md in the public key.
ServerEvalWithoutTagCheck(sk, pk, cover, p, md, verifiable, t) ==
    LET point == Decompress(p)
    IN  IF point = NoPoint THEN Panic
        ELSE LET tag == GgmEval(cover, md)
             IN  IF ~tag.ok THEN Err(tag.err, 0)
                 ELSE LET tagged_key == ScalarAdd(sk, FromBytesModOrder(tag.out))
                          eval_point == PointMul(Invert(tagged_key), point)
                          public_value == GetCombinedPkValue(pk, md)
                      IN  IF verifiable
                          THEN IF ~public_value.ok THEN Err(public_value.err, md)
                               ELSE Ok(Compress(eval_point),
                                       << ProofNew(tagged_key, public_value.value,
                                                   eval_point, point, t) >>)
                          ELSE Ok(Compress(eval_point), <<>>)

\* Server::eval that uses the tagged key only when a proof is asked for.
ServerEvalTaggingOnlyWithProof(sk, pk, cover, p, md, verifiable, t) ==
    LET point == Decompress(p)
    IN  IF point = NoPoint THEN Panic
        ELSE IF PkGet(pk, md) = <<>> THEN Err("BadTag", md)
        ELSE LET tag == GgmEval(cover, md)
             IN  IF ~tag.ok THEN Err(tag.err, 0)
                 ELSE LET ts == FromBytesModOrder(tag.out)
                          tagged_key == IF verifiable THEN ScalarAdd(sk, ts) ELSE sk
                          exponent == Invert(tagged_key)
                          eval_point == PointMul(exponent, point)
                          public_value == GetCombinedPkValue(pk, md)
                      IN  IF verifiable
                          THEN IF ~public_value.ok THEN Err(public_value.err, md)
                               ELSE Ok(Compress(eval_point),
                                       << ProofNew(tagged_key, public_value.value,
                                                   eval_point, point, t) >>)
                          ELSE Ok(Compress(eval_point), <<>>)

\* Server::eval on the server (sk, pk, cover), t being the scalar the proof draws.
ServerEval(sk, pk, cover, p, md, verifiable, t) ==
    LET point == Decompress(p)
    IN  IF point = NoPoint THEN Panic
        ELSE IF PkGet(pk, md) = <<>> THEN Err("BadTag", md)
        ELSE LET tag == GgmEval(cover, md)
             IN  IF ~tag.ok THEN Err(tag.err, 0)
                 ELSE LET ts == FromBytesModOrder(tag.out)
                          tagged_key == ScalarAdd(sk, ts)
                          exponent == Invert(tagged_key)
                          eval_point == PointMul(exponent, point)
                          public_value == GetCombinedPkValue(pk, md)
                      IN  IF verifiable
                          THEN IF ~public_value.ok THEN Err(public_value.err, md)
                               ELSE Ok(Compress(eval_point),
                                       << ProofNew(tagged_key, public_value.value,
                                                   eval_point, point, t) >>)
                          ELSE Ok(Compress(eval_point), <<>>)

\* The outcome of a &mut self method: the server after the call and the result.
Outcome(sk, pk, cover, kind) ==
    [oprf_key |-> sk, public_key |-> pk, pprf |-> cover, res |-> [kind |-> kind]]

\* Server::puncture of the tag after md.
ServerPunctureNextTag(sk, pk, cover, md) ==
    LET res == GgmPuncture(cover, (md + 1) % (2 ^ TagBits))
    IN  Outcome(sk, pk, res.cover, IF res.ok THEN "Ok" ELSE res.err)

\* Server::puncture that also drops md from the public key.
ServerPunctureDroppingKey(sk, pk, cover, md) ==
    LET res == GgmPuncture(cover, md)
    IN  Outcome(sk,
                [base_pk |-> pk.base_pk,
                 md_pks  |-> [m \in (DOMAIN pk.md_pks) \ {md} |-> pk.md_pks[m]]],
                res.cover, IF res.ok THEN "Ok" ELSE res.err)

\* Server::puncture that swallows the error of the PPRF.
ServerPunctureSwallowingError(sk, pk, cover, md) ==
    Outcome(sk, pk, GgmPuncture(cover, md).cover, "Ok")

\* Server::puncture that punctures a fresh cover only and otherwise answers
\* Ok without touching it.
ServerPunctureOnlyOnce(sk, pk, cover, md) ==
    LET res == GgmPuncture(cover, md)
    IN  IF Cardinality(cover) = 1
        THEN Outcome(sk, pk, res.cover, IF res.ok THEN "Ok" ELSE res.err)
        ELSE Outcome(sk, pk, cover, "Ok")

\* Server::puncture
ServerPuncture(sk, pk, cover, md) ==
    LET res == GgmPuncture(cover, md)
    IN  Outcome(sk, pk, res.cover, IF res.ok THEN "Ok" ELSE res.err)

\* Server::get_public_key
GetPublicKeyOf(pk) == pk

---------------------------------------------------------------------------
(* Client *)

\* The point Client::blind derives from the input.
HashToGroup(input) == FromUniformBytes(strobe_hash(input, "ppoprf_derive_client_input"))

\* Client::blind, r being the scalar it draws.
ClientBlind(input, r) ==
    [point |-> Compress(PointMul(r, HashToGroup(input))), r |-> r]

\* Client::verify that unwraps the combined public value.
ClientVerifyUnwrappingKey(pk, input, eval, md) ==
    LET public_value == GetCombinedPkValue(pk, md)
    IN  IF ~public_value.ok THEN "panic"
        ELSE IF eval.proof = <<>> THEN "panic"
        ELSE IF Decompress(eval.output) = NoPoint THEN "panic"
        ELSE IF ProofVerify(eval.proof[1], public_value.value,
                            Decompress(eval.output), input)
             THEN "true" ELSE "false"

\* Client::verify: "true", "false", or "panic" when an unwrap fails.
ClientVerify(pk, input, eval, md) ==
    LET public_value == GetCombinedPkValue(pk, md)
    IN  IF public_value.ok
        THEN IF eval.proof = <<>> THEN "panic"
             ELSE IF Decompress(eval.output) = NoPoint THEN "panic"
             ELSE IF ProofVerify(eval.proof[1], public_value.value,
                                 Decompress(eval.output), input)
                  THEN "true" ELSE "false"
        ELSE "false"

\* Client::unblind that multiplies by r, not by its inverse.
ClientUnblindWithoutInverse(p, r) ==
    LET point == Decompress(p)
    IN  IF point = NoPoint THEN NoPoint
        ELSE Compress(PointMul(r, point))

\* Client::unblind: the compressed point, or NoPoint when decompress().unwrap() fails.
ClientUnblind(p, r) ==
    LET point == Decompress(p)
    IN  IF point = NoPoint THEN NoPoint
        ELSE Compress(PointMul(Invert(r), point))

COMPRESSED_POINT_LEN == 32

DIGEST_LEN == 64

\* The output length Client::finalize insists on.
OutputLen == 32

\* The values of the first 32 bytes of a digest.
HalfDigestSpace == 16

\* CompressedRistretto::to_bytes: the encoding, little-endian, in 32 bytes.
point_bytes(unblinded) ==
    [i \in 1 .. COMPRESSED_POINT_LEN |-> IF i = 1 THEN unblinded ELSE 0]

\* The bytes Client::finalize would hash if it left the tag out.
hash_input_without_tag(input, md, unblinded) == input \o point_bytes(unblinded)

\* The bytes Client::finalize hashes.
hash_input(input, md, unblinded) == input \o <<md>> \o point_bytes(unblinded)

\* untruncated[..32]
Truncate(digest) == digest % HalfDigestSpace

\* Client::finalize into a buffer of out_len bytes: the bytes written to out,
\* or the panic on a buffer of the wrong length.
ClientFinalize(input, md, unblinded, out_len) ==
    IF out_len # OutputLen THEN [kind |-> "panic", out |-> 0]
    ELSE [kind |-> "Ok",
          out  |-> Truncate(strobe_hash(hash_input(input, md, unblinded),
                                        "ppoprf_finalize"))]

---------------------------------------------------------------------------
(* The helpers of the test module: one blinded evaluation and the direct   *)
(* evaluation of the same input. The result is the pair they return, or    *)
(* the panic of an unwrap or of a failed verification.                     *)

Pair(unblinded, chk) == [kind |-> "Ok", unblinded |-> unblinded, chk |-> chk]

Panicked(msg) == [kind |-> "panic", msg |-> msg]

\* tests::end_to_end_eval_check_no_proof
EndToEndEvalCheckNoProof(sk, pk, cover, c_input, md, r) ==
    LET blinded   == ClientBlind(c_input, r)
        evaluated == ServerEval(sk, pk, cover, blinded.point, md, FALSE, 0)
        p         == Compress(HashToGroup(c_input))
        chk_eval  == ServerEval(sk, pk, cover, p, md, FALSE, 0)
    IN  IF evaluated.kind # "Ok" THEN Panicked(evaluated.kind)
        ELSE IF chk_eval.kind # "Ok" THEN Panicked(chk_eval.kind)
        ELSE Pair(ClientUnblind(evaluated.output, blinded.r), chk_eval.output)

\* tests::end_to_end_eval_check
EndToEndEvalCheck(sk, pk, cover, c_input, md, r, t) ==
    LET blinded   == ClientBlind(c_input, r)
        evaluated == ServerEval(sk, pk, cover, blinded.point, md, TRUE, t)
        p         == Compress(HashToGroup(c_input))
        chk_eval  == ServerEval(sk, pk, cover, p, md, FALSE, 0)
    IN  IF evaluated.kind # "Ok" THEN Panicked(evaluated.kind)
        ELSE LET verified == ClientVerify(pk, Decompress(blinded.point), evaluated, md)
             IN  IF verified = "panic" THEN Panicked("unwrap")
                 ELSE IF verified = "false" THEN Panicked("Failed to verify proof")
                 ELSE IF chk_eval.kind # "Ok" THEN Panicked(chk_eval.kind)
                 ELSE Pair(ClientUnblind(evaluated.output, blinded.r), chk_eval.output)

---------------------------------------------------------------------------
(* The state machine. The server is used by one requester at a time: a     *)
(* call is made when no call is in progress, and Return ends it.           *)

TagInputs == { IF i % 2 = 0 THEN i \div 2 ELSE 2 ^ TagBits - 1 - i \div 2 : i \in 0 .. MaxTag }

MdVectors == UNION { [1 .. n -> TagInputs] : n \in 0 .. MaxMds }

Inputs == { <<>> } \cup { <<b>> : b \in 0 .. MaxInputByte }

ValidEncodings == { e \in Encodings : Decompress(e) # NoPoint }

Range(f) == { f[i] : i \in DOMAIN f }

NoArg == [md |-> 0]

Ready == last.op \in {"new", "idle"}

Init ==
    \E mds \in MdVectors, sk \in Scalars, root \in 0 .. MaxRootSeed :
        LET new == ServerNew(mds, sk, root)
        IN  /\ oprf_key = new.oprf_key
            /\ public_key = new.public_key
            /\ pprf = new.pprf
            /\ last = [op |-> "new", arg |-> NoArg, res |-> [kind |-> "Ok"]]
            /\ tagset = Range(mds)
            /\ snapshot = GetPublicKeyOf(new.public_key)
            /\ punctured_ok = {}

\* Server::eval that takes the server mutably and punctures md once it has
\* answered.
EvalPuncturing ==
    /\ Ready
    /\ \E p \in Encodings, md \in TagInputs, verifiable \in BOOLEAN :
         \E t \in IF verifiable THEN Scalars ELSE {0} :
            LET res == ServerEval(oprf_key, public_key, pprf, p, md, verifiable, t)
            IN  /\ last' = [op |-> "eval",
                            arg |-> [p |-> p, md |-> md, verifiable |-> verifiable],
                            res |-> res]
                /\ pprf' = IF res.kind = "Ok" THEN GgmPuncture(pprf, md).cover ELSE pprf
    /\ UNCHANGED <<oprf_key, public_key, history>>

Eval ==
    /\ Ready
    /\ \E p \in Encodings, md \in TagInputs, verifiable \in BOOLEAN :
         \E t \in IF verifiable THEN Scalars ELSE {0} :
            last' = [op |-> "eval",
                     arg |-> [p |-> p, md |-> md, verifiable |-> verifiable],
                     res |-> ServerEval(oprf_key, public_key, pprf, p, md, verifiable, t)]
    /\ UNCHANGED <<server, history>>

Puncture ==
    /\ Ready
    /\ \E md \in TagInputs :
         LET after == ServerPuncture(oprf_key, public_key, pprf, md)
         IN  /\ oprf_key' = after.oprf_key
             /\ public_key' = after.public_key
             /\ pprf' = after.pprf
             /\ last' = [op |-> "puncture", arg |-> [md |-> md], res |-> after.res]
             /\ punctured_ok' = IF after.res.kind = "Ok"
                                 THEN punctured_ok \cup {md} ELSE punctured_ok
    /\ UNCHANGED <<tagset, snapshot>>

GetPublicKey ==
    /\ Ready
    /\ last' = [op |-> "get_public_key", arg |-> NoArg,
                res |-> [kind |-> "Ok", key |-> GetPublicKeyOf(public_key)]]
    /\ UNCHANGED <<server, history>>

EndToEndNoProof ==
    /\ Ready
    /\ \E c_input \in Inputs, md \in TagInputs, r \in Scalars :
         last' = [op |-> "end_to_end_eval_check_no_proof",
                  arg |-> [c_input |-> c_input, md |-> md, r |-> r],
                  res |-> EndToEndEvalCheckNoProof(oprf_key, public_key, pprf,
                                                   c_input, md, r)]
    /\ UNCHANGED <<server, history>>

EndToEndCheck ==
    /\ Ready
    /\ \E c_input \in Inputs, md \in TagInputs, r \in Scalars, t \in Scalars :
         last' = [op |-> "end_to_end_eval_check",
                  arg |-> [c_input |-> c_input, md |-> md, r |-> r],
                  res |-> EndToEndEvalCheck(oprf_key, public_key, pprf,
                                            c_input, md, r, t)]
    /\ UNCHANGED <<server, history>>

Return ==
    /\ ~Ready
    /\ last' = [op |-> "idle", arg |-> NoArg, res |-> [kind |-> "Ok"]]
    /\ UNCHANGED <<server, history>>

Next ==
    \/ Eval
    \/ Puncture
    \/ GetPublicKey
    \/ EndToEndNoProof
    \/ EndToEndCheck
    \/ Return

Spec == Init /\ [][Next]_vars

(* Client::verify reads nothing but its arguments: the second specification *)
(* calls it, on the public key of a server just made, with every point,     *)
(* every evaluation (any output bytes, with a proof or without) and tag.    *)

Proofs == [c : Scalars, s : Scalars]

Evaluations == [output : Encodings, proof : { <<>> } \cup { <<pr>> : pr \in Proofs }]

Verify ==
    /\ Ready
    /\ \E input \in Points, eval \in Evaluations, md \in TagInputs :
         last' = [op |-> "verify",
                  arg |-> [input |-> input, eval |-> eval, md |-> md],
                  res |-> [kind |-> ClientVerify(public_key, input, eval, md)]]
    /\ UNCHANGED <<server, history>>

NextVerify ==
    \/ Verify
    \/ Return

SpecVerify == Init /\ [][NextVerify]_vars

(* Client::finalize takes no server: the third specification calls it, next *)
(* to a server made with no tags, on every input of up to MaxInputLen       *)
(* bytes, every tag and every point encoding, with a buffer of the right    *)
(* length or a longer one.                                                  *)

\* The byte strings of at most n bytes, each byte in 0..MaxInputByte.
RECURSIVE BytesUpTo(_)
BytesUpTo(n) ==
    IF n = 0 THEN { <<>> }
    ELSE LET shorter == BytesUpTo(n - 1)
         IN  shorter \cup { Append(bytes, b) : bytes \in shorter, b \in 0 .. MaxInputByte }

FinalizeInputs == BytesUpTo(MaxInputLen)

InitFinalize ==
    \E sk \in Scalars, root \in 0 .. MaxRootSeed :
        LET new == ServerNew(<<>>, sk, root)
        IN  /\ oprf_key = new.oprf_key
            /\ public_key = new.public_key
            /\ pprf = new.pprf
            /\ last = [op |-> "new", arg |-> NoArg, res |-> [kind |-> "Ok"]]
            /\ tagset = {}
            /\ snapshot = GetPublicKeyOf(new.public_key)
            /\ punctured_ok = {}

Finalize ==
    /\ Ready
    /\ \E input \in FinalizeInputs, md \in TagInputs, unblinded \in Encodings,
          out_len \in {OutputLen, DIGEST_LEN} :
         last' = [op |-> "finalize",
                  arg |-> [input |-> input, md |-> md, unblinded |-> unblinded,
                           out_len |-> out_len],
                  res |-> ClientFinalize(input, md, unblinded, out_len)]
    /\ UNCHANGED <<server, history>>

NextFinalize ==
    \/ Finalize
    \/ Return

SpecFinalize == InitFinalize /\ [][NextFinalize]_vars

---------------------------------------------------------------------------
(* Properties of the server. *)

\* The tagged key k = sk + PPRF.eval(md) of the server as it is now.
TaggedKey(md) == ScalarAdd(oprf_key, FromBytesModOrder(GgmEval(pprf, md).out))

\* Every result Server::eval can give now for (p, md), over both values of
\* verifiable and every scalar the proof can draw.
EvalResults(sk, pk, cover, p, md) ==
    { ServerEval(sk, pk, cover, p, md, FALSE, 0) }
    \cup { ServerEval(sk, pk, cover, p, md, TRUE, t) : t \in Scalars }

\* C1: once puncture(t) has returned Ok for a tag t of the tag set given to
\* Server::new, no later eval at t succeeds: on every decompressible point and
\* for both values of verifiable it fails with NoPrefixFound (and the test
\* helpers, which unwrap the result, panic with NoPrefixFound), whatever calls
\* were made in between.
C1_PunctureForwardSecurity ==
    /\ (last.op = "eval" /\ last.arg.md \in punctured_ok \cap tagset)
          => /\ last.res.kind # "Ok"
             /\ Decompress(last.arg.p) # NoPoint => last.res.kind = "NoPrefixFound"
    /\ (/\ last.op \in {"end_to_end_eval_check_no_proof", "end_to_end_eval_check"}
        /\ last.arg.md \in punctured_ok \cap tagset)
          => last.res = Panicked("NoPrefixFound")

\* An eval with proof at a punctured tag failed after a second puncture.
C1_Witness ==
    /\ last.op = "eval"
    /\ last.arg.md \in punctured_ok \cap tagset
    /\ last.arg.verifiable
    /\ Cardinality(punctured_ok) >= 2
    /\ last.res.kind = "NoPrefixFound"

\* C4: a successful puncture(t) leaves every other unpunctured tag t' of the
\* tag set intact: eval at t' succeeded before the puncture, succeeds after it,
\* and gives the same output point for every point, with and without proof.
C4_OtherTagsIntact ==
    [][ (last'.op = "puncture" /\ last.op # "puncture" /\ last'.res.kind = "Ok")
        => \A md \in tagset \ punctured_ok', p \in ValidEncodings :
             \A before \in EvalResults(oprf_key, public_key, pprf, p, md),
                after \in EvalResults(oprf_key', public_key', pprf', p, md) :
                /\ before.kind = "Ok"
                /\ after.kind = "Ok"
                /\ after.output = before.output ]_vars

\* An eval at an unpunctured tag of the tag set succeeded after two punctures.
C4_Witness ==
    /\ last.op = "eval"
    /\ last.arg.md \in tagset \ punctured_ok
    /\ Cardinality(punctured_ok) >= 2
    /\ punctured_ok \cap tagset # {}
    /\ last.res.kind = "Ok"

\* C5: eval at a tag that was not in the tag set given to Server::new fails
\* with BadTag{tag} on every decompressible point, for both values of
\* verifiable, also after that tag has been punctured.
C5_BadTagRejection ==
    (last.op = "eval" /\ last.arg.md \notin tagset /\ Decompress(last.arg.p) # NoPoint)
        => last.res = Err("BadTag", last.arg.md)

\* An eval at a tag outside the tag set, punctured before, gave BadTag.
C5_Witness ==
    /\ last.op = "eval"
    /\ last.arg.md \notin tagset
    /\ last.arg.md \in punctured_ok
    /\ last.res = Err("BadTag", last.arg.md)

\* C9: the public key never changes: after any punctures, successful or
\* failing, base_pk and every entry of md_pks equal the clone taken right
\* after Server::new, and get_public_key returns that same value.
C9_PublicKeyUntouched ==
    /\ public_key = snapshot
    /\ DOMAIN public_key.md_pks = tagset
    /\ last.op = "get_public_key" => last.res.key = snapshot

\* get_public_key was called after a tag of the tag set was punctured.
C9_Witness ==
    /\ last.op = "get_public_key"
    /\ punctured_ok \cap tagset # {}
    /\ last.res.key = snapshot

\* C10: puncture of a tag that has been punctured returns NoPrefixFound and
\* changes nothing: the cover is the same, and so is every result of eval.
C10_RepunctureFails ==
    [][ (last'.op = "puncture" /\ last.op # "puncture" /\ last'.arg.md \in punctured_ok)
        => /\ last'.res.kind = "NoPrefixFound"
           /\ pprf' = pprf
           /\ \A md \in TagInputs, p \in Encodings :
                 EvalResults(oprf_key', public_key', pprf', p, md)
                   = EvalResults(oprf_key, public_key, pprf, p, md) ]_vars

\* A second puncture of a tag of the tag set failed.
C10_Witness ==
    /\ last.op = "puncture"
    /\ last.arg.md \in punctured_ok \cap tagset
    /\ last.res.kind = "NoPrefixFound"

---------------------------------------------------------------------------
(* Properties of the protocol. *)

\* The direct evaluation of the hashed input: k^-1 * H, compressed.
DirectEvaluation(c_input, md) ==
    Compress(PointMul(Invert(TaggedKey(md)), HashToGroup(c_input)))

Agrees ==
    /\ last.res.kind = "Ok"
    /\ last.res.unblinded = last.res.chk
    /\ last.res.chk = DirectEvaluation(last.arg.c_input, last.arg.md)

\* C2, as claimed: for every unpunctured tag of the tag set and every input,
\* blind, eval without proof and unblind give the server's direct evaluation
\* k^-1 * H of the hashed input.
C2_AgreementNoProof ==
    (last.op = "end_to_end_eval_check_no_proof" /\ last.arg.md \in tagset \ punctured_ok)
        => Agrees

\* C2, amended: the same whenever the scalar r that blind draws is not zero.
C2_AgreementNoProofNonzeroBlind ==
    (/\ last.op = "end_to_end_eval_check_no_proof"
     /\ last.arg.md \in tagset \ punctured_ok
     /\ last.arg.r # 0)
        => Agrees

\* A blinded evaluation with r not in {0, 1}, a hashed input other than the
\* identity and a nonzero tagged key agreed with the direct evaluation.
C2_Witness ==
    /\ last.op = "end_to_end_eval_check_no_proof"
    /\ last.arg.md \in tagset \ punctured_ok
    /\ last.arg.r \notin {0, 1}
    /\ HashToGroup(last.arg.c_input) # 0
    /\ TaggedKey(last.arg.md) # 0
    /\ Agrees
    /\ last.res.chk # ClientBlind(last.arg.c_input, last.arg.r).point

\* C3, as claimed: for every unpunctured tag of the tag set and every input,
\* the proof of eval on the blinded point verifies, and unblinding the output
\* gives the server's direct evaluation of the hashed input.
C3_AgreementWithProof ==
    (last.op = "end_to_end_eval_check" /\ last.arg.md \in tagset \ punctured_ok)
        => Agrees

\* C3, amended: the proof verifies whenever the tagged key k = sk + PPRF.eval(t)
\* is not zero, and the unblinded output is the direct evaluation whenever,
\* besides, the scalar r that blind draws is not zero.
C3_AgreementWithProofNonzero ==
    (/\ last.op = "end_to_end_eval_check"
     /\ last.arg.md \in tagset \ punctured_ok
     /\ TaggedKey(last.arg.md) # 0)
        => /\ last.res.kind = "Ok"
           /\ last.arg.r # 0 => Agrees

\* A blinded evaluation with proof, with r not in {0, 1}, a hashed input other
\* than the identity and a nonzero tagged key, verified and agreed.
C3_Witness ==
    /\ last.op = "end_to_end_eval_check"
    /\ last.arg.md \in tagset \ punctured_ok
    /\ last.arg.r \notin {0, 1}
    /\ HashToGroup(last.arg.c_input) # 0
    /\ TaggedKey(last.arg.md) # 0
    /\ Agrees

\* C6: Client::verify on an evaluation without a proof, for a tag present in
\* md_pks, returns false.
C6_MissingProofIsFalse ==
    (/\ last.op = "verify"
     /\ last.arg.eval.proof = <<>>
     /\ last.arg.md \in DOMAIN public_key.md_pks)
        => last.res.kind = "false"

\* The evaluation verified is one Server::eval gave with a proof for the
\* compressed point p and the tag verified, its output replaced by other bytes.
OutputTampered ==
    /\ last.op = "verify"
    /\ \E p \in ValidEncodings, t \in Scalars :
          LET honest == ServerEval(oprf_key, public_key, pprf, p, last.arg.md, TRUE, t)
          IN  /\ honest.kind = "Ok"
              /\ last.arg.input = Decompress(p)
              /\ last.arg.eval.proof = honest.proof
              /\ last.arg.eval.output # honest.output

\* The verifier of the tampered evaluation recomputes the challenge of the
\* proof from a hash input that differs in the output point: the DLEQ hash,
\* scaled down to Q values, collides.
ChallengeCollides ==
    /\ Decompress(last.arg.eval.output) # NoPoint
    /\ ProofVerify(last.arg.eval.proof[1],
                   GetCombinedPkValue(public_key, last.arg.md).value,
                   Decompress(last.arg.eval.output), last.arg.input)

\* C7: Client::verify returns false on an evaluation with proof whose output
\* was replaced by any different 32-byte value (a collision of the challenge
\* hash set aside).
C7_TamperedOutputIsFalse ==
    (OutputTampered /\ ~ChallengeCollides) => last.res.kind = "false"

\* C8: Client::verify returns false whenever the tag is absent from md_pks,
\* whatever the evaluation: any output bytes, with a proof or without.
C8_AbsentTagIsFalse ==
    (last.op = "verify" /\ last.arg.md \notin DOMAIN public_key.md_pks)
        => last.res.kind = "false"

\* verify returned false for an absent tag on an evaluation with no proof and
\* an output that decodes to no point.
C8_Witness ==
    /\ last.op = "verify"
    /\ last.arg.md \notin DOMAIN public_key.md_pks
    /\ DOMAIN public_key.md_pks # {}
    /\ last.arg.eval.proof = <<>>
    /\ Decompress(last.arg.eval.output) = NoPoint
    /\ last.res.kind = "false"

---------------------------------------------------------------------------
(* Properties of the cover. *)

\* The tags some seed of the cover covers.
Leaves(cover) == { t \in Tags : Covering(cover, t) # {} }

CoverExact ==
    \A t \in Tags :
        Cardinality(Covering(pprf, t)) = IF t \in punctured_ok THEN 0 ELSE 1

\* C11: after setup and after every step that changes the cover, every tag of
\* 0..255 that has not been punctured is covered by exactly one seed of the
\* cover and no punctured tag is covered by any; and a successful puncture(tag)
\* leaves a cover whose leaves are the leaves before it without tag.
C11_CoverInvariant ==
    /\ CoverExact
    /\ [][ /\ <<pprf, punctured_ok>>' # <<pprf, punctured_ok>> => CoverExact'
           /\ (last'.op = "puncture" /\ last.op # "puncture" /\ last'.res.kind = "Ok")
                => Leaves(pprf') = Leaves(pprf) \ {last'.arg.md} ]_vars

\* Two tags have been punctured, the second just now, and the cover holds
\* more than eight seeds.
C11_Witness ==
    /\ last.op = "puncture"
    /\ last.res.kind = "Ok"
    /\ Cardinality(punctured_ok) >= 2
    /\ Cardinality(pprf) > TagBits
    /\ CoverExact

---------------------------------------------------------------------------
(* Properties of the public key. *)

\* The key Server::new stores for md on the cover it has just set up.
SetupMdPk(cover, md) == PointMul(FromBytesModOrder(GgmEval(cover, md).out), BASEPOINT)

\* C12: in every reachable state base_pk is sk*B and the keys of md_pks are
\* exactly the tags given to Server::new; after construction md_pks[t] is
\* tau_t*B for tau_t the PPRF value at t, and md_pks never changes afterwards;
\* so for every tag t of the tag set that is not punctured the combined key
\* base_pk + md_pks[t] is (sk + PPRF.eval(t))*B.
C12_PublicKeyInvariant ==
    /\ public_key.base_pk = PointMul(oprf_key, BASEPOINT)
    /\ DOMAIN public_key.md_pks = tagset
    /\ last.op = "new" => \A t \in tagset : public_key.md_pks[t] = SetupMdPk(pprf, t)
    /\ public_key.md_pks = snapshot.md_pks
    /\ \A t \in tagset \ punctured_ok :
          /\ GgmEval(pprf, t).ok
          /\ GetCombinedPkValue(public_key, t)
               = [ok |-> TRUE, err |-> "", value |-> PointMul(TaggedKey(t), BASEPOINT)]

\* A server with a nonzero key and two tags, one of them punctured.
C12_Witness ==
    /\ oprf_key # 0
    /\ Cardinality(tagset) >= 2
    /\ punctured_ok \cap tagset # {}
    /\ \E t \in tagset \ punctured_ok :
          /\ public_key.md_pks[t] # 0
          /\ GetCombinedPkValue(public_key, t).value = PointMul(TaggedKey(t), BASEPOINT)

---------------------------------------------------------------------------
(* Frame of the operations. *)

\* C13: every step other than a puncture (an eval that succeeds or fails with
\* BadTag or NoPrefixFound, a get_public_key, a client round trip, a return)
\* leaves oprf_key, public_key and the cover as they were; and the outcome of
\* an eval is fixed by the server and (point, tag): the same eval made again
\* on the server it leaves behind, with or without proof and whatever scalar
\* the proof draws, succeeds or fails alike and gives the same output point.
C13_OnlyPunctureMutates ==
    [][ /\ last'.op # "puncture" => <<oprf_key, public_key, pprf>>' = <<oprf_key, public_key, pprf>>
        /\ last'.op = "eval"
             => \A again \in EvalResults(oprf_key', public_key', pprf',
                                         last'.arg.p, last'.arg.md) :
                  /\ again.kind = last'.res.kind
                  /\ again.kind = "Ok" => again.output = last'.res.output ]_vars

\* An eval with proof has succeeded on a server whose cover has been punctured.
C13_Witness ==
    /\ last.op = "eval"
    /\ last.res.kind = "Ok"
    /\ last.arg.verifiable
    /\ punctured_ok # {}
    /\ Cardinality(pprf) > 1

---------------------------------------------------------------------------
(* The verifiable flag. *)

\* C14: the flag verifiable changes the proof and nothing else: the eval just
\* made, repeated with the other value of the flag (and any scalar for the
\* proof), succeeds or fails alike and returns the same output point; and an
\* Evaluation carries a proof exactly when it was asked for with verifiable.
C14_FlagAffectsOnlyProof ==
    last.op = "eval"
       => /\ \A t \in Scalars :
               LET other == ServerEval(oprf_key, public_key, pprf, last.arg.p,
                                       last.arg.md, ~last.arg.verifiable, t)
               IN  /\ other.kind = last.res.kind
                   /\ other.output = last.res.output
                   /\ other.kind = "Ok" => (other.proof # <<>>) = ~last.arg.verifiable
          /\ last.res.kind = "Ok" => (last.res.proof # <<>>) = last.arg.verifiable

\* An eval without proof returned a point other than the identity, on a server
\* with a nonzero PPRF value at the tag.
C14_Witness ==
    /\ last.op = "eval"
    /\ ~last.arg.verifiable
    /\ last.res.kind = "Ok"
    /\ last.res.proof = <<>>
    /\ Decompress(last.res.output) # 0
    /\ TaggedKey(last.arg.md) # oprf_key

---------------------------------------------------------------------------
(* Verification across punctures. *)

\* The step is an eval with proof that decodes its point, at a tag of the tag
\* set that is not punctured.
EvalWithProofStep ==
    /\ last'.op = "eval"
    /\ last'.arg.verifiable
    /\ last'.arg.md \in tagset \ punctured_ok
    /\ Decompress(last'.arg.p) # NoPoint

\* The evaluation the step returned verifies against the public key taken at
\* setup and against the one the server holds before and after the step.
VerifiesAgainstEveryKey ==
    /\ last'.res.kind = "Ok"
    /\ \A pk \in {snapshot, GetPublicKeyOf(public_key), GetPublicKeyOf(public_key')} :
          ClientVerify(pk, Decompress(last'.arg.p), last'.res, last'.arg.md) = "true"

\* The step is a successful puncture of a tag of the tag set.
PunctureOfTagStep ==
    /\ last'.op = "puncture"
    /\ last.op # "puncture"
    /\ last'.res.kind = "Ok"
    /\ last'.arg.md \in tagset

\* Every evaluation with proof that eval gave at the tag before the step
\* verifies against the public key after it.
EarlierEvaluationsVerify ==
    \A p \in ValidEncodings :
       \A ev \in EvalResults(oprf_key, public_key, pprf, p, last'.arg.md) :
          ev.proof # <<>>
             => ClientVerify(GetPublicKeyOf(public_key'), Decompress(p), ev,
                             last'.arg.md) = "true"

\* C15, as claimed: whatever tags have been punctured, an evaluation with
\* proof at an unpunctured tag t of the tag set verifies against the public
\* key obtained at any time, and one obtained before puncture(t) verifies
\* against the public key after puncture(t).
C15_VerificationSurvives ==
    [][ /\ EvalWithProofStep => VerifiesAgainstEveryKey
        /\ PunctureOfTagStep => EarlierEvaluationsVerify ]_vars

\* C15, amended: the same, whenever the tagged key sk + PPRF.eval(t) is not
\* zero.
C15_VerificationSurvivesNonzero ==
    [][ /\ (EvalWithProofStep /\ TaggedKey(last'.arg.md) # 0)
            => VerifiesAgainstEveryKey
        /\ (PunctureOfTagStep /\ TaggedKey(last'.arg.md) # 0)
            => EarlierEvaluationsVerify ]_vars

\* An evaluation with proof of a point other than the identity, at a tag with
\* a nonzero tagged key, verified against the key taken at setup after two
\* other tags had been punctured, one of them a tag of the tag set.
C15_Witness ==
    /\ last.op = "eval"
    /\ last.arg.verifiable
    /\ last.res.kind = "Ok"
    /\ last.arg.md \in tagset \ punctured_ok
    /\ Cardinality(punctured_ok) >= 2
    /\ punctured_ok \cap tagset # {}
    /\ Decompress(last.arg.p) \notin {NoPoint, 0}
    /\ TaggedKey(last.arg.md) # 0
    /\ ClientVerify(snapshot, Decompress(last.arg.p), last.res, last.arg.md) = "true"

---------------------------------------------------------------------------
(* Order of punctures. *)

\* The tag that differs from t in bit b alone.
FlipBit(t, b) == IF (t \div 2 ^ b) % 2 = 0 THEN t + 2 ^ b ELSE t - 2 ^ b

\* The tags the second puncture is taken from, t1 being the first: the tags
\* of the model and every tag one bit away from t1, so that the two punctured
\* leaves part at every depth of the tree.
SecondTags(t1) == TagInputs \cup { FlipBit(t1, b) : b \in 0 .. TagBits - 1 }

\* The server left by puncture(md) on the server after.
PunctureAgain(after, md) ==
    ServerPuncture(after.oprf_key, after.public_key, after.pprf, md)

\* The tags of the tag set at which eval on the server after fails with
\* NoPrefixFound.
FailingTags(after) ==
    { t \in tagset :
        ServerEval(after.oprf_key, after.public_key, after.pprf,
                   Compress(BASEPOINT), t, FALSE, 0).kind = "NoPrefixFound" }

\* The output points of eval on the server after, for the tags of the model.
OutputPoints(after) ==
    [ t \in TagInputs |->
        ServerEval(after.oprf_key, after.public_key, after.pprf,
                   Compress(BASEPOINT), t, FALSE, 0).output ]

\* C16: when puncture(t1) has just succeeded, then for every other unpunctured
\* tag t2 puncturing t2 next succeeds, puncturing t2 first and t1 after it
\* succeeds too, and the two servers agree: the same tags fail with
\* NoPrefixFound (the punctured ones), every tag evaluates to the same output
\* point, and the stored cover is the same set of seeds.
C16_PuncturesCommute ==
    [][ (last'.op = "puncture" /\ last.op # "puncture" /\ last'.res.kind = "Ok")
        => \A t2 \in SecondTags(last'.arg.md) \ punctured_ok' :
             LET t1        == last'.arg.md
                 t1_then   == ServerPuncture(oprf_key', public_key', pprf', t2)
                 t2_first  == ServerPuncture(oprf_key, public_key, pprf, t2)
                 t2_then   == PunctureAgain(t2_first, t1)
             IN  /\ t1_then.res.kind = "Ok"
                 /\ t2_first.res.kind = "Ok"
                 /\ t2_then.res.kind = "Ok"
                 /\ FailingTags(t1_then) = tagset \cap (punctured_ok' \cup {t2})
                 /\ FailingTags(t2_then) = FailingTags(t1_then)
                 /\ OutputPoints(t2_then) = OutputPoints(t1_then)
                 /\ t2_then.pprf = t1_then.pprf ]_vars

\* A second tag has just been punctured; one of the two is a tag of the tag
\* set, and the tag set has an unpunctured tag left.
C16_Witness ==
    /\ last.op = "puncture"
    /\ last.res.kind = "Ok"
    /\ Cardinality(punctured_ok) = 2
    /\ punctured_ok \cap tagset # {}
    /\ tagset \ punctured_ok # {}

---------------------------------------------------------------------------
(* The bytes finalize hashes. *)

\* Two different byte strings with the same truncated digest.
FinalizeCollides(a, b) ==
    /\ a # b
    /\ Truncate(strobe_hash(a, "ppoprf_finalize")) = Truncate(strobe_hash(b, "ppoprf_finalize"))

\* C17: the bytes finalize hashes are input, one tag byte and 32 bytes of the
\* point, and no other triple (input, tag, point) gives the same bytes; the
\* output is the truncated digest of these bytes, so the same triple gives the
\* same output, and another tag on the same input and point gives another
\* output unless the truncated hash collides on the two byte strings.
C17_FinalizeInjectiveEncoding ==
    last.op = "finalize"
       => LET mine == hash_input(last.arg.input, last.arg.md, last.arg.unblinded)
          IN  /\ Len(mine) = Len(last.arg.input) + 1 + COMPRESSED_POINT_LEN
              /\ \A input \in FinalizeInputs, md \in TagInputs, unblinded \in Encodings :
                    (hash_input(input, md, unblinded) = mine)
                       <=> (<<input, md, unblinded>>
                             = <<last.arg.input, last.arg.md, last.arg.unblinded>>)
              /\ last.arg.out_len = OutputLen
                    => /\ last.res.kind = "Ok"
                       /\ last.res.out = Truncate(strobe_hash(mine, "ppoprf_finalize"))
                       /\ last.res = ClientFinalize(last.arg.input, last.arg.md,
                                                    last.arg.unblinded, OutputLen)
                       /\ \A md \in TagInputs \ {last.arg.md} :
                             LET theirs == hash_input(last.arg.input, md, last.arg.unblinded)
                             IN  ClientFinalize(last.arg.input, md, last.arg.unblinded,
                                                OutputLen).out = last.res.out
                                    => FinalizeCollides(theirs, mine)

\* finalize answered on a two-byte input that ends in the byte of the tag,
\* and every other tag on the same input and point gives another output.
C17_Witness ==
    /\ last.op = "finalize"
    /\ last.res.kind = "Ok"
    /\ Len(last.arg.input) = 2
    /\ last.arg.input[2] = last.arg.md
    /\ \A md \in TagInputs \ {last.arg.md} :
          ClientFinalize(last.arg.input, md, last.arg.unblinded, OutputLen).out
             # last.res.out

====
